---- MODULE Spec2Model ----
(***************************************************************************)
(* A model of the IPTV stream-validation engine of                         *)
(* src/main/iptv_processor_core.py: source fetching, channel extraction,   *)
(* the concurrency-bounded prober (CorePlayTester) and the playable        *)
(* filter.                                                                 *)
(*                                                                         *)
(* Python values are modelled as follows.                                  *)
(*   Optional[T]      a sequence of length <= 1: <<>> is None, <<v>> is v  *)
(*   dataclass        a record with the dataclass's field names            *)
(*   str (text)       a sequence of one-character strings                  *)
(*   dict             a function whose DOMAIN is the key set               *)
(*   list             a sequence                                           *)
(***************************************************************************)
EXTENDS Integers, Sequences, FiniteSets, TLC

VARIABLES
    \* ---- configuration read by CorePlayTester.__init__ -----------------
    retry_times,        \* self.retry_times
    concurrent_limit,   \* self.concurrent_limit
    \* ---- the environment: what the probed servers may answer -----------
    net,                \* the possible outcomes of the awaited network calls
    \* ---- batch_verify_play ---------------------------------------------
    channels,           \* the list passed to batch_verify_play
    bpc,                \* position of batch_verify_play: "idle", "gather", "returned"
    sem,                \* value of the asyncio.Semaphore
    pc,                 \* position of each worker task (indexed by list position)
    attempt,            \* each worker's loop variable `attempt`
    res,                \* each worker's local `result` (PlayTestResult)
    nreq,               \* number of session.get calls each worker has issued
    last,               \* how each worker's latest await ended: [phase, exc]
    last_rsp,           \* the response each worker's latest session.get returned
    hist,               \* how each of a worker's attempts ended: [status, exc]
    nwrites,            \* number of writes each worker has made to `results`
    results,            \* the local dict `results` of batch_verify_play
    play_test_results,  \* the module global play_test_results
    processed_count,    \* self.processed_count
    total_count,        \* self.total_count
    \* ---- filter_playable_channels --------------------------------------
    latency_threshold,  \* config.LATENCY_THRESHOLD as read by the filter
    fpc,                \* "idle" before filter_playable_channels, "filtered" after
    playable_results,   \* the first list it returns
    unplayable_results, \* the second list it returns
    \* ---- generate_all_output -------------------------------------------
    opc,                \* "idle" before generate_all_output, "written" after
    txt_sorted,         \* the playable results in the order of the name/URL file
    playable_sorted,    \* the playable results in the order of the report
    unplayable_shown,   \* the unplayable results listed in the report
    \* ---- main -----------------------------------------------------------
    main_pc,            \* position of main: "fetch", "probe", "filter", "output", "done"
    main_end,           \* how main ended: "running", "no_channels", "completed"
    \* ---- get_url_content (main.py) --------------------------------------
    gpc,                \* "idle", "mirror", "proxy" (a request is under way), "returned"
    g_url,              \* the argument url
    g_content,          \* the local content: None or Some(text)
    g_log,              \* ghost: the requests sent, in order
    g_ret,              \* the value returned: None or Some(text)
    \* ---- extract_channel_name_and_url on one text -----------------------
    input_text,         \* the source text given to the extractor
    epc,                \* "build" while the text is put together, then
                        \* "extracted" and, after a second call, "again"
    extracted,          \* the list extract_channel_name_and_url returned
    extracted_again,    \* the list a second call on the same text returned
    \* ---- fetch_and_extract_all_channels --------------------------------
    source_urls,        \* config.SOURCE_URLS
    fetch_pc,           \* "idle", "loop" (inside the for loop), "returned"
    fetch_pos,          \* index of the source being fetched
    fetch_attempt,      \* loop variable `attempt` of fetch_source_content
    fetch_nreq,         \* number of requests.get calls made for the current source
    fetch_log,          \* per source fetched so far: the channels extracted from
                        \* its text, None when fetch_source_content returned None
    all_channels,       \* the local list all_channels
    channel_cache,      \* the module global channel_cache
    fetched             \* the list fetch_and_extract_all_channels returned

probe_vars == <<retry_times, concurrent_limit, net, channels, bpc, sem, pc,
                attempt, res, nreq, last, last_rsp, hist, nwrites, results,
                play_test_results, processed_count, total_count>>

filter_vars == <<latency_threshold, fpc, playable_results, unplayable_results>>

extract_vars == <<input_text, epc, extracted, extracted_again>>

fetch_vars == <<source_urls, fetch_pc, fetch_pos, fetch_attempt, fetch_nreq,
                fetch_log, all_channels, channel_cache, fetched>>

out_vars == <<opc, txt_sorted, playable_sorted, unplayable_shown>>

main_vars == <<main_pc, main_end>>

mirror_vars == <<gpc, g_url, g_content, g_log, g_ret>>

vars == <<probe_vars, filter_vars, extract_vars, fetch_vars, out_vars, main_vars, mirror_vars>>

\* ------------------------------------------------------------------------
\* Bounds of the model and program constants
\* ------------------------------------------------------------------------
MaxChannels == 3        \* longest channel list given to batch_verify_play
MaxConcurrent == 2      \* largest CONCURRENT_LIMIT explored
MaxRetryTimes == 2      \* largest RETRY_TIMES explored by the single-probe spec
MaxResults == 2         \* largest result map given to the filter alone
MaxLines == 3           \* most lines of a text given to the extractor alone
MaxSources == 2         \* most entries of SOURCE_URLS
MaxSourceLines == 2     \* most lines of the text a fetched source returns
FETCH_RETRY_TIMES == 2  \* retry_times of fetch_source_content
RETRY_TIMES == 1        \* config.RETRY_TIMES
LATENCY_THRESHOLD == 3000   \* config.LATENCY_THRESHOLD

None == <<>>
Some(v) == <<v>>

\* ------------------------------------------------------------------------
\* Data structures
\* ------------------------------------------------------------------------
\* ChannelInfo(url, channel_name, source_url)
ChannelInfo(u, n, s) == [url |-> u, channel_name |-> n, source_url |-> s]

\* PlayTestResult(url=..., channel_name=...) with the dataclass defaults
PlayTestResult(u, n) ==
    [url |-> u, channel_name |-> n, latency |-> None, play_success |-> FALSE,
     error |-> None, content_length |-> None, content_type |-> None]

\* The failure reasons verify_single_play writes into result.error.  The
\* status is part of the bad-status message, 0 elsewhere.
ErrBadStatus(st) == [kind |-> "bad_status", status |-> st]
ErrNonMedia == [kind |-> "non_media", status |-> 0]
ErrTimeout == [kind |-> "timeout", status |-> 0]
ErrConnection == [kind |-> "connection", status |-> 0]
ErrOther == [kind |-> "exception", status |-> 0]

\* The exceptions an awaited aiohttp call can raise, by the except clause
\* of verify_single_play that catches them.
Exceptions == {"TimeoutError", "ClientConnectionError", "Exception"}

\* Handlers in the wrong order: the timeout is reported as a connection
\* error.
ErrorOf_TimeoutAsConnection(exc) ==
    CASE exc = "TimeoutError" -> ErrConnection
      [] exc = "ClientConnectionError" -> ErrConnection
      [] OTHER -> ErrOther

\* The except clauses of lines 352-357.
ErrorOf(exc) ==
    CASE exc = "TimeoutError" -> ErrTimeout
      [] exc = "ClientConnectionError" -> ErrConnection
      [] OTHER -> ErrOther

\* An accepted set that also takes server errors.
valid_status_codes_With500 == {200, 206, 302, 307, 500}

\* Line 318
valid_status_codes == {200, 206, 302, 307}

\* str(n) for the small counts the model reaches
NumStr(n) ==
    IF n <= 9
    THEN <<"1", "2", "3", "4", "5", "6", "7", "8", "9">>[n]
    ELSE "n"

M3U8 == <<".", "m", "3", "u", "8">>

\* URLs of the probed channels; the even ones end in ".M3U8".
Url(i) ==
    <<"h", "t", "t", "p", ":", "/", "/", NumStr(i)>>
        \o (IF i % 2 = 0 THEN <<".", "M", "3", "U", "8">> ELSE <<>>)

\* str.lower() on the letters that occur in the URLs of the model
lower(s) ==
    [k \in DOMAIN s |->
        CASE s[k] = "M" -> "m" [] s[k] = "U" -> "u" [] s[k] = "H" -> "h"
          [] s[k] = "T" -> "t" [] s[k] = "P" -> "p" [] s[k] = "S" -> "s"
          [] OTHER -> s[k]]

\* `sub in s` for strings
Contains(s, sub) ==
    \E i \in 1..(Len(s) - Len(sub) + 1) : SubSeq(s, i, i + Len(sub) - 1) = sub

MediaContentTypes ==
    {"video/mp4", "audio/mpeg", "application/x-mpegurl", "application/octet-stream"}

ContentTypes == MediaContentTypes \cup {"text/html", ""}

\* A media test that looks at the Content-Type only.
is_media_ContentTypeOnly(ctype, url) == ctype \in MediaContentTypes

\* is_media or ".m3u8" in channel.url.lower()
is_media(ctype, url) == ctype \in MediaContentTypes \/ Contains(lower(url), M3U8)

\* ------------------------------------------------------------------------
\* CorePlayTester: the concurrency-bounded prober
\* ------------------------------------------------------------------------
Names == <<<<"A">>, <<"B">>, <<"C">>, <<"D">>, <<"E">>>>

SourceUrl == <<"s", "1">>

\* The channel lists given to batch_verify_play: n channels with pairwise
\* distinct URLs, or the same list with the last URL repeating the first.
ChannelList(n, dup) ==
    [i \in 1..n |->
        ChannelInfo(Url(IF dup /\ i = n /\ n >= 2 THEN 1 ELSE i),
                    Names[((i - 1) % Len(Names)) + 1], SourceUrl)]

ChannelLists == {ChannelList(n, dup) : n \in 0..MaxChannels, dup \in BOOLEAN}

Workers == 1..Len(channels)

\* How an awaited call ended: the await ("get" is session.get, connecting
\* and reading the headers; "read" is response.content.read) and the
\* exception it raised, "none" when it returned.
Event(phase, exc) == [phase |-> phase, exc |-> exc]

\* How one attempt ended: the status of the response, or 0 and the
\* exception session.get raised.
Outcome(status, exc) == [status |-> status, exc |-> exc]

\* A gate that admits a task whatever the value of the semaphore.
CanAcquire_NoGate(value) == TRUE

\* asyncio.Semaphore.acquire returns without waiting only while the value
\* is positive.
CanAcquire(value) == value > 0

\* A retry loop that runs one iteration too many.
HasNextAttempt_OneMore(a, rt) == a <= rt

\* `if attempt < self.retry_times` (line 360); also the loop bound of
\* `for attempt in range(self.retry_times + 1)` (line 309).
HasNextAttempt(a, rt) == a < rt

\* A success that records no latency.
MarkSuccess_NoLatency(r, elapsed) ==
    [r EXCEPT !.play_success = TRUE, !.error = None]

\* A success that leaves the error of an earlier attempt in place.
MarkSuccess_KeepError(r, elapsed) ==
    [r EXCEPT !.latency = Some(elapsed), !.play_success = TRUE]

\* Lines 344-346: the attempt succeeded.
MarkSuccess(r, elapsed) ==
    [r EXCEPT !.latency = Some(elapsed), !.play_success = TRUE, !.error = None]

\* A failure that keeps the reason of the first failed attempt.
MarkError_KeepFirst(r, e) == IF r.error = None THEN [r EXCEPT !.error = Some(e)] ELSE r

\* Lines 349-357: the attempt failed with reason e.
MarkError(r, e) == [r EXCEPT !.error = Some(e)]

\* Lines 322-324: the response headers are copied into the result.
WithHeaders(r, ctype) ==
    [r EXCEPT !.content_length = Some("len"), !.content_type = Some(ctype)]

\* A write that replaces the whole map by the one new entry.
StoreResult_Replace(map, url, r) == (url :> r)

\* worker, line 385: results[channel.url] = res
StoreResult(map, url, r) == (url :> r) @@ map

\* An end of the probe that does not count the channel.
Finish_NoProgress(i, r, ev) ==
    /\ res' = [res EXCEPT ![i] = r]
    /\ last' = [last EXCEPT ![i] = ev]
    /\ results' = StoreResult(results, channels[i].url, r)
    /\ nwrites' = [nwrites EXCEPT ![i] = nwrites[i] + 1]
    /\ sem' = sem + 1
    /\ pc' = [pc EXCEPT ![i] = "done"]
    /\ UNCHANGED <<attempt, nreq, processed_count>>

\* An end of the probe that gives the slot back only after a success.
Finish_LeakOnFailure(i, r, ev) ==
    /\ res' = [res EXCEPT ![i] = r]
    /\ last' = [last EXCEPT ![i] = ev]
    /\ processed_count' = processed_count + 1
    /\ results' = StoreResult(results, channels[i].url, r)
    /\ nwrites' = [nwrites EXCEPT ![i] = nwrites[i] + 1]
    /\ sem' = IF r.play_success THEN sem + 1 ELSE sem
    /\ pc' = [pc EXCEPT ![i] = "done"]
    /\ UNCHANGED <<attempt, nreq>>

\* The end of verify_single_play and of worker, reached without awaiting:
\* _update_progress (line 363), return (364), the write of the result slot
\* (385) and the release of the semaphore on leaving `async with` (383).
Finish(i, r, ev) ==
    /\ res' = [res EXCEPT ![i] = r]
    /\ last' = [last EXCEPT ![i] = ev]
    /\ processed_count' = processed_count + 1
    /\ results' = StoreResult(results, channels[i].url, r)
    /\ nwrites' = [nwrites EXCEPT ![i] = nwrites[i] + 1]
    /\ sem' = sem + 1
    /\ pc' = [pc EXCEPT ![i] = "done"]
    /\ UNCHANGED <<attempt, nreq>>

\* A worker that also stores the result of every failed attempt before it
\* sleeps.
AfterFailedAttempt_WriteEarly(i, r, ev) ==
    IF HasNextAttempt(attempt[i], retry_times)
    THEN /\ res' = [res EXCEPT ![i] = r]
         /\ last' = [last EXCEPT ![i] = ev]
         /\ pc' = [pc EXCEPT ![i] = "sleep"]
         /\ results' = StoreResult(results, channels[i].url, r)
         /\ nwrites' = [nwrites EXCEPT ![i] = nwrites[i] + 1]
         /\ UNCHANGED <<attempt, nreq, processed_count, sem>>
    ELSE Finish(i, r, ev)

\* A worker that gives its slot back for the time of the sleep.
AfterFailedAttempt_ReleaseWhileSleeping(i, r, ev) ==
    IF HasNextAttempt(attempt[i], retry_times)
    THEN /\ res' = [res EXCEPT ![i] = r]
         /\ last' = [last EXCEPT ![i] = ev]
         /\ pc' = [pc EXCEPT ![i] = "sleep"]
         /\ sem' = sem + 1
         /\ UNCHANGED <<attempt, nreq, nwrites, processed_count, results>>
    ELSE Finish(i, r, ev)

\* Lines 359-361 after a failed attempt: sleep before the next attempt, or
\* leave the loop after the last one.
AfterFailedAttempt(i, r, ev) ==
    IF HasNextAttempt(attempt[i], retry_times)
    THEN /\ res' = [res EXCEPT ![i] = r]
         /\ last' = [last EXCEPT ![i] = ev]
         /\ pc' = [pc EXCEPT ![i] = "sleep"]
         /\ UNCHANGED <<attempt, nreq, nwrites, processed_count, results, sem>>
    ELSE Finish(i, r, ev)

\* batch_verify_play, lines 368-389: reset the counters, return at once on
\* an empty list, otherwise create the semaphore and one worker per channel.
BatchStart ==
    /\ bpc = "idle"
    /\ results' = <<>>
    /\ total_count' = Len(channels)
    /\ processed_count' = 0
    /\ IF Len(channels) = 0
       THEN /\ bpc' = "returned"
            /\ UNCHANGED <<sem, pc, attempt, res, nreq, last, last_rsp, hist, nwrites>>
       ELSE /\ bpc' = "gather"
            /\ sem' = concurrent_limit
            /\ pc' = [i \in Workers |-> "start"]
            /\ attempt' = [i \in Workers |-> 0]
            /\ nreq' = [i \in Workers |-> 0]
            /\ last' = [i \in Workers |-> Event("none", "none")]
            /\ last_rsp' = [i \in Workers |-> None]
            /\ hist' = [i \in Workers |-> <<>>]
            /\ nwrites' = [i \in Workers |-> 0]
            /\ res' = [i \in Workers |->
                         PlayTestResult(channels[i].url, channels[i].channel_name)]
    /\ UNCHANGED <<retry_times, concurrent_limit, net, channels, play_test_results>>

\* worker, line 383, and verify_single_play up to its first await: the
\* task passes the semaphore, builds its result and issues the first
\* session.get (lines 304-316).
Acquire(i) ==
    /\ bpc = "gather"
    /\ pc[i] = "start"
    /\ CanAcquire(sem)
    /\ sem' = sem - 1
    /\ res' = [res EXCEPT ![i] =
                 PlayTestResult(channels[i].url, channels[i].channel_name)]
    /\ attempt' = [attempt EXCEPT ![i] = 0]
    /\ nreq' = [nreq EXCEPT ![i] = nreq[i] + 1]
    /\ pc' = [pc EXCEPT ![i] = "get"]
    /\ UNCHANGED <<retry_times, concurrent_limit, net, channels, bpc, last, last_rsp,
                   hist, nwrites, results, play_test_results, processed_count,
                   total_count>>

\* session.get returned a response (lines 316-351).  An accepted status
\* with a media signal goes on to the body sample read; the other
\* responses fail the attempt.
GetResponse(i) ==
    /\ bpc = "gather"
    /\ pc[i] = "get"
    /\ \E rsp \in net.responses :
         /\ last_rsp' = [last_rsp EXCEPT ![i] = Some(rsp)]
         /\ hist' = [hist EXCEPT ![i] = Append(hist[i], Outcome(rsp.status, "none"))]
         /\ IF rsp.status \in valid_status_codes
            THEN IF is_media(rsp.ctype, channels[i].url)
                 THEN /\ res' = [res EXCEPT ![i] = WithHeaders(res[i], rsp.ctype)]
                      /\ last' = [last EXCEPT ![i] = Event("get", "none")]
                      /\ pc' = [pc EXCEPT ![i] = "read"]
                      /\ UNCHANGED <<attempt, nreq, nwrites, processed_count,
                                     results, sem>>
                 ELSE AfterFailedAttempt(i,
                          MarkError(WithHeaders(res[i], rsp.ctype), ErrNonMedia),
                          Event("get", "none"))
            ELSE AfterFailedAttempt(i, MarkError(res[i], ErrBadStatus(rsp.status)),
                                    Event("get", "none"))
    /\ UNCHANGED <<retry_times, concurrent_limit, net, channels, bpc,
                   play_test_results, total_count>>

\* A probe without the except clauses: the exception leaves
\* verify_single_play and the worker, which releases the semaphore and
\* ends without a result.
GetRaise_Escapes(i) ==
    /\ bpc = "gather"
    /\ pc[i] = "get"
    /\ \E exc \in net.exceptions :
         /\ last_rsp' = [last_rsp EXCEPT ![i] = None]
         /\ hist' = [hist EXCEPT ![i] = Append(hist[i], Outcome(0, exc))]
         /\ last' = [last EXCEPT ![i] = Event("get", exc)]
    /\ sem' = sem + 1
    /\ pc' = [pc EXCEPT ![i] = "done"]
    /\ UNCHANGED <<retry_times, concurrent_limit, net, channels, bpc, attempt, res,
                   nreq, nwrites, results, processed_count, play_test_results,
                   total_count>>

\* session.get raised while connecting or reading the headers (lines
\* 352-357).
GetRaise(i) ==
    /\ bpc = "gather"
    /\ pc[i] = "get"
    /\ \E exc \in net.exceptions :
         /\ last_rsp' = [last_rsp EXCEPT ![i] = None]
         /\ hist' = [hist EXCEPT ![i] = Append(hist[i], Outcome(0, exc))]
         /\ AfterFailedAttempt(i, MarkError(res[i], ErrorOf(exc)), Event("get", exc))
    /\ UNCHANGED <<retry_times, concurrent_limit, net, channels, bpc,
                   play_test_results, total_count>>

\* response.content.read(512) ended (lines 338-347): whether it returned
\* or raised (the inner `except Exception` swallows every exception, the
\* timeout included), the attempt is a success and the loop is left.
ReadDone(i) ==
    /\ bpc = "gather"
    /\ pc[i] = "read"
    /\ \E exc \in net.read_exceptions \cup {"none"}, elapsed \in net.latencies :
         Finish(i, MarkSuccess(res[i], elapsed), Event("read", exc))
    /\ UNCHANGED <<retry_times, concurrent_limit, net, channels, bpc, last_rsp, hist,
                   play_test_results, total_count>>

\* asyncio.sleep(1) ended (line 361): the next iteration issues the next
\* session.get.
Wake(i) ==
    /\ bpc = "gather"
    /\ pc[i] = "sleep"
    /\ attempt' = [attempt EXCEPT ![i] = attempt[i] + 1]
    /\ nreq' = [nreq EXCEPT ![i] = nreq[i] + 1]
    /\ last' = [last EXCEPT ![i] = Event("none", "none")]
    /\ pc' = [pc EXCEPT ![i] = "get"]
    /\ UNCHANGED <<retry_times, concurrent_limit, net, channels, bpc, sem, res,
                   last_rsp, hist, nwrites, results, play_test_results,
                   processed_count, total_count>>

\* A wait that ends when the first task is done.
Joined_AnyDone == \E i \in Workers : pc[i] = "done"

\* await asyncio.gather(*tasks), line 389: every task has finished.
Joined == \A i \in Workers : pc[i] = "done"

\* asyncio.gather returned (lines 389-398): every worker is done; the
\* results are published in the global and returned.
BatchReturn ==
    /\ bpc = "gather"
    /\ Joined
    /\ play_test_results' = results
    /\ bpc' = "returned"
    /\ UNCHANGED <<retry_times, concurrent_limit, net, channels, sem, pc, attempt,
                   res, nreq, last, last_rsp, hist, nwrites, results,
                   processed_count, total_count>>

\* The answers of the servers explored under the batch specification, and
\* all of those explored for a single probe.
BatchNet ==
    [responses |-> {[status |-> 200, ctype |-> "video/mp4"],
                    [status |-> 500, ctype |-> "text/html"]},
     exceptions |-> {"TimeoutError"},
     read_exceptions |-> {},
     latencies |-> {LATENCY_THRESHOLD + 1}]

FullNet ==
    [responses |-> [status : valid_status_codes \cup {404, 500}, ctype : ContentTypes],
     exceptions |-> Exceptions,
     read_exceptions |-> Exceptions,
     latencies |-> {0, LATENCY_THRESHOLD, LATENCY_THRESHOLD + 1}]

\* CorePlayTester() before batch_verify_play is called.
ProbeInit ==
    /\ bpc = "idle"
    /\ sem = 0
    /\ pc = <<>>
    /\ attempt = <<>>
    /\ res = <<>>
    /\ nreq = <<>>
    /\ last = <<>>
    /\ last_rsp = <<>>
    /\ hist = <<>>
    /\ nwrites = <<>>
    /\ results = <<>>
    /\ play_test_results = <<>>
    /\ processed_count = 0
    /\ total_count = 0

\* The prober when no batch is run.
ProbeIdle ==
    /\ retry_times = RETRY_TIMES
    /\ concurrent_limit = 1
    /\ net = BatchNet
    /\ channels = <<>>
    /\ ProbeInit

\* The filter before it has run.
FilterIdle ==
    /\ latency_threshold = LATENCY_THRESHOLD
    /\ fpc = "idle"
    /\ playable_results = <<>>
    /\ unplayable_results = <<>>

\* The extractor and the fetcher before they have run.
ExtractIdle ==
    /\ input_text = <<>>
    /\ epc = "build"
    /\ extracted = <<>>
    /\ extracted_again = <<>>

\* Nothing has been written, and main is not running.
OutputIdle ==
    /\ opc = "idle"
    /\ txt_sorted = <<>>
    /\ playable_sorted = <<>>
    /\ unplayable_shown = <<>>

MainIdle ==
    /\ main_pc = "off"
    /\ main_end = "running"

\* get_url_content is not called.
MirrorIdle ==
    /\ gpc = "off"
    /\ g_url = <<>>
    /\ g_content = <<>>
    /\ g_log = <<>>
    /\ g_ret = <<>>

FetchIdle ==
    /\ source_urls = <<>>
    /\ fetch_pc = "idle"
    /\ fetch_pos = 0
    /\ fetch_attempt = 0
    /\ fetch_nreq = 0
    /\ fetch_log = <<>>
    /\ all_channels = <<>>
    /\ channel_cache = <<>>
    /\ fetched = <<>>

Init ==
    /\ retry_times = RETRY_TIMES
    /\ concurrent_limit \in 1..MaxConcurrent
    /\ net = BatchNet
    /\ channels \in ChannelLists
    /\ ProbeInit
    /\ FilterIdle
    /\ ExtractIdle
    /\ OutputIdle
    /\ MainIdle
    /\ MirrorIdle
    /\ FetchIdle

ProbeNext ==
    \/ BatchStart
    \/ \E i \in Workers : Acquire(i)
    \/ \E i \in Workers : GetResponse(i)
    \/ \E i \in Workers : GetRaise(i)
    \/ \E i \in Workers : ReadDone(i)
    \/ \E i \in Workers : Wake(i)
    \/ BatchReturn

Next ==
    ProbeNext /\ UNCHANGED <<filter_vars, extract_vars, fetch_vars, out_vars, main_vars, mirror_vars>>

Spec == Init /\ [][Next]_vars

\* The batch under a fair event loop: every await ends (a request is
\* bounded by its timeout, a sleep by its delay) and a task that can run
\* is run.
\* The answers explored under fairness: a media response, or an attempt
\* that ends by its timeout.
FairNet ==
    [responses |-> {[status |-> 200, ctype |-> "video/mp4"]},
     exceptions |-> {"TimeoutError"},
     read_exceptions |-> {},
     latencies |-> {LATENCY_THRESHOLD}]

InitFair ==
    /\ retry_times = RETRY_TIMES
    /\ concurrent_limit \in 1..MaxConcurrent
    /\ net = FairNet
    /\ channels \in ChannelLists
    /\ ProbeInit
    /\ FilterIdle
    /\ ExtractIdle
    /\ OutputIdle
    /\ MainIdle
    /\ MirrorIdle
    /\ FetchIdle

SpecFair == InitFair /\ [][Next]_vars /\ WF_vars(Next)

\* verify_single_play alone: one channel, every retry count up to
\* MaxRetryTimes, every answer of FullNet.
InitProbe ==
    /\ retry_times \in 0..MaxRetryTimes
    /\ concurrent_limit = 1
    /\ net = FullNet
    /\ channels \in {ChannelList(1, FALSE), <<ChannelInfo(Url(2), Names[2], SourceUrl)>>}
    /\ ProbeInit
    /\ FilterIdle
    /\ ExtractIdle
    /\ OutputIdle
    /\ MainIdle
    /\ MirrorIdle
    /\ FetchIdle

SpecProbe == InitProbe /\ [][Next]_vars

\* ------------------------------------------------------------------------
\* filter_playable_channels
\* ------------------------------------------------------------------------
\* A test that rejects a latency equal to the threshold.
IsPlayable_Strict(r, threshold) ==
    r.play_success /\ (r.latency = None \/ r.latency[1] < threshold)

\* Line 409: result.play_success and (result.latency is None or
\* result.latency <= latency_threshold)
IsPlayable(r, threshold) ==
    r.play_success /\ (r.latency = None \/ r.latency[1] <= threshold)

\* A filter whose second list takes the failed results only, so that a
\* successful but slow result lands in neither list.
filter_playable_channels_DropSlow(vals, threshold) ==
    [playable |-> SelectSeq(vals, LAMBDA r : IsPlayable(r, threshold)),
     unplayable |-> SelectSeq(vals, LAMBDA r : ~r.play_success)]

\* Lines 404-415: one pass over play_test_results.values(), each result
\* appended to one of the two lists.
filter_playable_channels(vals, threshold) ==
    [playable |-> SelectSeq(vals, LAMBDA r : IsPlayable(r, threshold)),
     unplayable |-> SelectSeq(vals, LAMBDA r : ~IsPlayable(r, threshold))]

\* The orders in which a dict with key set S can be iterated (its
\* insertion orders).
Orders(S) ==
    {o \in [1..Cardinality(S) -> S] : \A i, j \in DOMAIN o : o[i] = o[j] => i = j}

\* play_test_results.values() under iteration order o
Values(map, o) == [k \in DOMAIN o |-> map[o[k]]]

\* filter_playable_channels(), lines 401-415.
FilterPlayable ==
    /\ fpc = "idle"
    /\ \E o \in Orders(DOMAIN play_test_results) :
         LET out == filter_playable_channels(Values(play_test_results, o),
                                             latency_threshold)
         IN /\ playable_results' = out.playable
            /\ unplayable_results' = out.unplayable
    /\ fpc' = "filtered"
    /\ UNCHANGED <<latency_threshold, probe_vars>>

\* The result maps given to the filter alone: any verdict, latency and
\* error for each URL, whether or not the prober can produce it.
FilterLatencies ==
    {None, Some(0), Some(LATENCY_THRESHOLD), Some(LATENCY_THRESHOLD + 1), Some(5000)}

Outcomes ==
    [play_success : BOOLEAN, latency : FilterLatencies,
     error : {None, Some(ErrTimeout)}]

ResultOf(u, o) ==
    [PlayTestResult(u, Names[1]) EXCEPT
        !.play_success = o.play_success, !.latency = o.latency, !.error = o.error]

ResultUrls == {Url(i) : i \in 1..MaxResults}

ResultMaps ==
    UNION {{[u \in D |-> ResultOf(u, f[u])] : f \in [D -> Outcomes]} :
              D \in SUBSET ResultUrls}

InitFilter ==
    /\ retry_times = RETRY_TIMES
    /\ concurrent_limit = 1
    /\ net = BatchNet
    /\ channels = <<>>
    /\ bpc = "returned"
    /\ sem = 0
    /\ pc = <<>>
    /\ attempt = <<>>
    /\ res = <<>>
    /\ nreq = <<>>
    /\ last = <<>>
    /\ last_rsp = <<>>
    /\ hist = <<>>
    /\ nwrites = <<>>
    /\ results = <<>>
    /\ processed_count = 0
    /\ total_count = 0
    /\ play_test_results \in ResultMaps
    /\ latency_threshold \in {0, LATENCY_THRESHOLD}
    /\ fpc = "idle"
    /\ playable_results = <<>>
    /\ unplayable_results = <<>>
    /\ ExtractIdle
    /\ OutputIdle
    /\ MainIdle
    /\ MirrorIdle
    /\ FetchIdle

NextFilter ==
    FilterPlayable /\ UNCHANGED <<extract_vars, fetch_vars, out_vars, main_vars, mirror_vars>>

SpecFilter == InitFilter /\ [][NextFilter]_vars

\* ------------------------------------------------------------------------
\* extract_channel_name_and_url
\* ------------------------------------------------------------------------
\* Text is a sequence of characters.  \s of the regular expressions and
\* the characters str.strip() removes:
Space == {" ", "\t", "\r", "\n"}

\* re.IGNORECASE on the letters of "https"
Lower(c) ==
    CASE c = "H" -> "h" [] c = "T" -> "t" [] c = "P" -> "p" [] c = "S" -> "s"
      [] OTHER -> c

\* s[i], or "" past either end
At(s, i) == IF i >= 1 /\ i <= Len(s) THEN s[i] ELSE ""

StartsWith(s, prefix) ==
    /\ Len(prefix) <= Len(s)
    /\ \A k \in DOMAIN prefix : s[k] = prefix[k]

\* The length of the match of `https?://` (IGNORECASE) at index i, 0 when
\* there is none.
SchemeLen(s, i) ==
    IF /\ Lower(At(s, i)) = "h" /\ Lower(At(s, i + 1)) = "t"
       /\ Lower(At(s, i + 2)) = "t" /\ Lower(At(s, i + 3)) = "p"
    THEN IF At(s, i + 4) = ":" /\ At(s, i + 5) = "/" /\ At(s, i + 6) = "/"
         THEN 7
         ELSE IF /\ Lower(At(s, i + 4)) = "s" /\ At(s, i + 5) = ":"
                 /\ At(s, i + 6) = "/" /\ At(s, i + 7) = "/"
              THEN 8
              ELSE 0
    ELSE 0

\* The index after the longest run of characters outside `stop` that
\* starts at i (a greedy negated character class).
RECURSIVE RunEnd(_, _, _)
RunEnd(s, i, stop) ==
    IF i > Len(s) \/ s[i] \in stop THEN i ELSE RunEnd(s, i + 1, stop)

\* The index after the match of `https?://[^stop]+` at index i, 0 when
\* there is none.
UrlEnd(s, i, stop) ==
    LET n == SchemeLen(s, i)
    IN IF n = 0
       THEN 0
       ELSE LET e == RunEnd(s, i + n, stop)
            IN IF e > i + n THEN e ELSE 0

Min(S) == CHOOSE x \in S : \A y \in S : x <= y

Max(S) == CHOOSE x \in S : \A y \in S : x >= y

\* str.strip()
Strip(s) ==
    LET keep == {k \in DOMAIN s : s[k] \notin Space}
    IN IF keep = {} THEN <<>> ELSE SubSeq(s, Min(keep), Max(keep))

\* The number of leading whitespace characters of a line that is not all
\* whitespace.
LeadingSpaces(s) == Min({k \in DOMAIN s : s[k] \notin Space}) - 1

\* Line 129: the stripped non-empty lines of content.split('\n'), each
\* with the index in content at which its text starts.
RECURSIVE content_lines(_, _)
content_lines(s, st) ==
    IF st > Len(s)
    THEN <<>>
    ELSE LET e == RunEnd(s, st, {"\n"})
             raw == SubSeq(s, st, e - 1)
             t == Strip(raw)
         IN (IF t = <<>>
             THEN <<>>
             ELSE <<[text |-> t, pos |-> st + LeadingSpaces(raw)]>>)
            \o content_lines(s, e + 1)

EXTINF == <<"#", "E", "X", "T", "I", "N", "F", ":">>

\* Lines 137-139: group 1 of re.search(r'#EXTINF:.+,(.+)', line), stripped,
\* for a line that starts with "#EXTINF:"; None when the pattern does not
\* match.  The greedy `.+` leaves to the group what follows the last comma
\* that has a character after it and one between it and the tag.
ExtinfName(line) ==
    LET commas == {j \in (Len(EXTINF) + 2)..(Len(line) - 1) : line[j] = ","}
    IN IF commas = {}
       THEN None
       ELSE Some(Strip(SubSeq(line, Max(commas) + 1, Len(line))))

\* Python truthiness of an Optional[str]
Truthy(opt) == opt # None /\ opt[1] # <<>>

\* A tier in which a URL line leaves the name in place for the next one.
RECURSIVE Tier1Matches_NoReset(_, _, _)
Tier1Matches_NoReset(lines, k, name) ==
    IF k > Len(lines)
    THEN <<>>
    ELSE LET line == lines[k].text IN
         IF StartsWith(line, EXTINF)
         THEN LET found == ExtinfName(line)
              IN Tier1Matches_NoReset(lines, k + 1, IF found # None THEN found ELSE name)
         ELSE IF SchemeLen(line, 1) > 0 /\ Truthy(name)
              THEN <<[url |-> line, name |-> name[1], pos |-> lines[k].pos]>>
                   \o Tier1Matches_NoReset(lines, k + 1, name)
              ELSE Tier1Matches_NoReset(lines, k + 1, name)

\* Lines 133-153 without the seen_urls test: the URL lines that take a
\* name from a preceding #EXTINF line, in order.  `name` is
\* m3u_channel_name.
RECURSIVE Tier1Matches(_, _, _)
Tier1Matches(lines, k, name) ==
    IF k > Len(lines)
    THEN <<>>
    ELSE LET line == lines[k].text IN
         IF StartsWith(line, EXTINF)
         THEN LET found == ExtinfName(line)
              IN Tier1Matches(lines, k + 1, IF found # None THEN found ELSE name)
         ELSE IF SchemeLen(line, 1) > 0 /\ Truthy(name)
              THEN <<[url |-> line, name |-> name[1], pos |-> lines[k].pos]>>
                   \o Tier1Matches(lines, k + 1, None)
              ELSE Tier1Matches(lines, k + 1, name)

\* Line 156: the next match of (.+?)[,|](https?://[^\s#]+) at or after
\* pos, None when there is none.  The match uses the first delimiter that
\* is followed by a URL and preceded, on its line and not before pos, by
\* at least one character; the lazy group starts at pos or at the start
\* of the line, whichever is later.
NextPair(s, pos) ==
    LET cand == {e \in (pos + 1)..Len(s) :
                    /\ s[e] \in {",", "|"}
                    /\ s[e - 1] # "\n"
                    /\ UrlEnd(s, e + 1, Space \cup {"#"}) > 0}
    IN IF cand = {}
       THEN None
       ELSE LET e == Min(cand)
                ls == Max({j + 1 : j \in {0} \cup {j \in 1..(e - 1) : s[j] = "\n"}})
                b == IF pos > ls THEN pos ELSE ls
                end == UrlEnd(s, e + 1, Space \cup {"#"})
            IN Some([name |-> Strip(SubSeq(s, b, e - 1)),
                     url |-> Strip(SubSeq(s, e + 1, end - 1)),
                     pos |-> e + 1, end |-> end])

\* Lines 157-160: re.findall of the pair pattern over the whole content,
\* names and URLs stripped.
RECURSIVE Tier2Matches(_, _)
Tier2Matches(s, pos) ==
    LET pair == NextPair(s, pos)
    IN IF pair = None
       THEN <<>>
       ELSE <<pair[1]>> \o Tier2Matches(s, pair[1].end)

\* Lines 177-178: re.findall of (https?://[^\s#\n\r,|]+) over the whole
\* content.
RECURSIVE Tier3Matches(_, _)
Tier3Matches(s, pos) ==
    IF pos > Len(s)
    THEN <<>>
    ELSE LET end == UrlEnd(s, pos, {" ", "\t", "\r", "\n", "#", ",", "|"})
         IN IF end > 0
            THEN <<[url |-> Strip(SubSeq(s, pos, end - 1)), pos |-> pos]>>
                 \o Tier3Matches(s, end)
            ELSE Tier3Matches(s, pos + 1)

\* str.split('/')
RECURSIVE SplitSlash(_, _)
SplitSlash(s, st) ==
    LET e == RunEnd(s, st, {"/"})
    IN IF e > Len(s)
       THEN <<SubSeq(s, st, Len(s))>>
       ELSE <<SubSeq(s, st, e - 1)>> \o SplitSlash(s, e + 1)

\* Line 188: the prefixes of URL parts that give no name.
GenericPrefixes ==
    {<<"h", "t", "t", "p">>, <<"w", "w", "w">>, <<"l", "i", "v", "e">>,
     <<"c", "d", "n">>, <<"s", "t", "r", "e", "a", "m">>}

\* The name given when no URL part qualifies (line 185).
UnknownName == <<"u", "n", "k", "n", "o", "w", "n">>

\* Lines 185-190: the first URL part longer than 3 characters that starts
\* with no generic prefix, else the default name.
fallback_name(url) ==
    LET parts == SplitSlash(url, 1)
        good == {k \in DOMAIN parts :
                    /\ Len(parts[k]) > 3
                    /\ \A g \in GenericPrefixes : ~StartsWith(parts[k], g)}
    IN IF good = {} THEN UnknownName ELSE parts[Min(good)]

\* A delimited pair whose empty name is kept as it is.
custom_channel_name_NoDefault(name, count) == name

\* Line 168: name if name else f"custom_{len(channels)+1}"
custom_channel_name(name, count) ==
    IF name # <<>> THEN name ELSE <<"c", "u", "s", "t", "o", "m", "_", NumStr(count + 1)>>

\* channels.append(ChannelInfo(...)) with seen_urls.add(url)
AddChannel(st, url, name, src) ==
    [channels |-> Append(st.channels, ChannelInfo(url, name, src)),
     seen_urls |-> st.seen_urls \cup {url}]

HasUrl(chs, url) == \E k \in DOMAIN chs : chs[k].url = url

\* Lines 144-150: one tagged-playlist match.
Tier1Add(st, m, src) ==
    IF m.url \in st.seen_urls THEN st ELSE AddChannel(st, m.url, m.name, src)

\* A second tier in which a later pair replaces the name already recorded
\* for its URL.
Tier2Add_LastNameWins(st, m, src) ==
    IF m.url = <<>>
    THEN st
    ELSE IF HasUrl(st.channels, m.url)
         THEN [st EXCEPT !.channels =
                  [k \in DOMAIN st.channels |->
                      IF st.channels[k].url = m.url /\ m.name # <<>>
                      THEN [st.channels[k] EXCEPT !.channel_name = m.name]
                      ELSE st.channels[k]]]
         ELSE AddChannel(st, m.url,
                         custom_channel_name(m.name, Len(st.channels)), src)

\* Lines 161-173: one delimited-pair match.
Tier2Add(st, m, src) ==
    IF m.url = <<>> \/ m.url \in st.seen_urls
    THEN st
    ELSE IF HasUrl(st.channels, m.url)
         THEN st
         ELSE AddChannel(st, m.url,
                         custom_channel_name(m.name, Len(st.channels)), src)

\* Lines 180-195: one bare-URL match.
Tier3Add(st, m, src) ==
    IF m.url \in st.seen_urls \/ HasUrl(st.channels, m.url)
    THEN st
    ELSE AddChannel(st, m.url, fallback_name(m.url), src)

\* The loop of lines 142-150 over the URL lines of tier 1, from match k on.
RECURSIVE Tier1Loop(_, _, _, _)
Tier1Loop(ms, k, st, src) ==
    IF k > Len(ms) THEN st ELSE Tier1Loop(ms, k + 1, Tier1Add(st, ms[k], src), src)

\* The loop of lines 158-174 over custom_matches, from match k on.
RECURSIVE Tier2Loop(_, _, _, _)
Tier2Loop(ms, k, st, src) ==
    IF k > Len(ms) THEN st ELSE Tier2Loop(ms, k + 1, Tier2Add(st, ms[k], src), src)

\* The loop of lines 179-195 over standalone_urls, from match k on.
RECURSIVE Tier3Loop(_, _, _, _)
Tier3Loop(ms, k, st, src) ==
    IF k > Len(ms) THEN st ELSE Tier3Loop(ms, k + 1, Tier3Add(st, ms[k], src), src)

\* An extractor whose seen_urls outlives the call: it starts from the URLs
\* the previous call returned.
extract_channel_name_and_url_SharedSeen(content, source_url) ==
    LET st0 == [channels |-> <<>>,
                seen_urls |-> {extracted[k].url : k \in DOMAIN extracted}]
        st1 == Tier1Loop(Tier1Matches(content_lines(content, 1), 1, None), 1, st0, source_url)
        st2 == Tier2Loop(Tier2Matches(content, 1), 1, st1, source_url)
        st3 == Tier3Loop(Tier3Matches(content, 1), 1, st2, source_url)
    IN st3.channels

\* extract_channel_name_and_url(content, source_url), lines 122-198: the
\* three tiers in order over one list of channels and one set seen_urls,
\* both created by the call (lines 128-130).
extract_channel_name_and_url(content, source_url) ==
    LET st0 == [channels |-> <<>>, seen_urls |-> {}]
        st1 == Tier1Loop(Tier1Matches(content_lines(content, 1), 1, None), 1, st0, source_url)
        st2 == Tier2Loop(Tier2Matches(content, 1), 1, st1, source_url)
        st3 == Tier3Loop(Tier3Matches(content, 1), 1, st2, source_url)
    IN st3.channels

\* The lines the texts given to the extractor are made of: the three
\* formats, names that are empty or missing, and URLs followed on their
\* line by a comma or by a blank and more text.
HttpA == <<"h", "t", "t", "p", ":", "/", "/", "a">>

HttpB == <<"h", "t", "t", "p", ":", "/", "/", "b">>

ExtractLines ==
    {EXTINF \o <<"-", "1", ",", "A">>,
     EXTINF \o <<"-", "1">>,
     HttpA,
     HttpB,
     <<"C", "|">> \o HttpA,
     <<"D", ",">> \o HttpB,
     <<" ", ",">> \o HttpB,
     <<"x">>,
     <<"E", ",">> \o HttpA \o <<",", "z">>,
     HttpA \o <<"/", "m", "o", "v", "i", "e">>,
     HttpA \o <<" ", "z">>}

LineCount(s) == Cardinality({k \in DOMAIN s : s[k] = "\n"})

\* One more line, with its newline, is appended to the text.
AddLine ==
    /\ epc = "build"
    /\ LineCount(input_text) < MaxLines
    /\ \E l \in ExtractLines : input_text' = input_text \o l \o <<"\n">>
    /\ UNCHANGED <<epc, extracted, extracted_again>>

\* extract_channel_name_and_url(content, source_url) is called.
Extract ==
    /\ epc = "build"
    /\ extracted' = extract_channel_name_and_url(input_text, SourceUrl)
    /\ epc' = "extracted"
    /\ UNCHANGED <<input_text, extracted_again>>

\* extract_channel_name_and_url is called once more on the same text.
ExtractAgain ==
    /\ epc = "extracted"
    /\ extracted_again' = extract_channel_name_and_url(input_text, SourceUrl)
    /\ epc' = "again"
    /\ UNCHANGED <<input_text, extracted>>

InitExtract ==
    /\ ProbeIdle
    /\ FilterIdle
    /\ ExtractIdle
    /\ OutputIdle
    /\ MainIdle
    /\ MirrorIdle
    /\ FetchIdle

NextExtract ==
    (AddLine \/ Extract \/ ExtractAgain)
        /\ UNCHANGED <<probe_vars, filter_vars, fetch_vars, out_vars, main_vars, mirror_vars>>

SpecExtract == InitExtract /\ [][NextExtract]_vars

\* ------------------------------------------------------------------------
\* fetch_source_content and fetch_and_extract_all_channels
\* ------------------------------------------------------------------------
SourceName(i) == <<"s", NumStr(i)>>

\* The values of config.SOURCE_URLS explored: up to MaxSources distinct
\* sources, or none.
SourceLists == {[i \in 1..n |-> SourceName(i)] : n \in 0..MaxSources}

\* The lines of the texts the sources return; the same URL is named
\* differently by different lines.
SourceLineSet ==
    {EXTINF \o <<"-", "1", ",", "A">> \o <<"\n">> \o HttpA,
     <<"C", "|">> \o HttpA,
     <<"D", ",">> \o HttpB}

RECURSIVE TextsOf(_, _)
TextsOf(lines, n) ==
    IF n = 0
    THEN {<<>>}
    ELSE TextsOf(lines, n - 1)
         \cup {t \o l \o <<"\n">> : t \in TextsOf(lines, n - 1), l \in lines}

SourceTexts == TextsOf(SourceLineSet, MaxSourceLines)

\* A deduplication in which the record seen last replaces the earlier
\* record of the same URL.
RECURSIVE unique_channels_LastWins(_)
unique_channels_LastWins(chs) ==
    IF chs = <<>>
    THEN <<>>
    ELSE IF HasUrl(Tail(chs), Head(chs).url)
         THEN unique_channels_LastWins(Tail(chs))
         ELSE <<Head(chs)>> \o unique_channels_LastWins(Tail(chs))

\* The loop of lines 221-224 from index k on: a channel is appended unless
\* its URL is already in unique_urls, the URLs of the channels kept.
RECURSIVE UniqueFrom(_, _, _)
UniqueFrom(chs, k, kept) ==
    IF k > Len(chs)
    THEN kept
    ELSE UniqueFrom(chs, k + 1,
             IF HasUrl(kept, chs[k].url) THEN kept ELSE Append(kept, chs[k]))

\* Lines 219-224: the global deduplication of all_channels.
unique_channels(chs) == UniqueFrom(chs, 1, <<>>)

\* fetch_and_extract_all_channels up to the loop, lines 202-209: with no
\* source configured it returns the empty list at once, leaving
\* channel_cache as it is.  Otherwise the first request for the first
\* source is made.
FetchStart ==
    /\ fetch_pc = "idle"
    /\ all_channels' = <<>>
    /\ fetch_attempt' = 0
    /\ fetch_log' = <<>>
    /\ IF source_urls = <<>>
       THEN /\ fetched' = <<>>
            /\ fetch_pc' = "returned"
            /\ UNCHANGED <<fetch_pos, fetch_nreq, channel_cache>>
       ELSE /\ fetch_pc' = "loop"
            /\ fetch_pos' = 1
            /\ fetch_nreq' = 1
            /\ UNCHANGED <<fetched, channel_cache>>
    /\ UNCHANGED source_urls

\* The end of one iteration of the loop of lines 210-216 with all_channels
\* now `chs`: the first request for the next source, or after the last
\* source the deduplication, the write of channel_cache and the return
\* (lines 218-229).
NextSource(chs) ==
    /\ all_channels' = chs
    /\ fetch_attempt' = 0
    /\ IF fetch_pos < Len(source_urls)
       THEN /\ fetch_pos' = fetch_pos + 1
            /\ fetch_nreq' = 1
            /\ UNCHANGED <<fetch_pc, channel_cache, fetched>>
       ELSE /\ fetch_pc' = "returned"
            /\ channel_cache' = unique_channels(chs)
            /\ fetched' = unique_channels(chs)
            /\ UNCHANGED <<fetch_pos, fetch_nreq>>
    /\ UNCHANGED source_urls

\* A loop that stops at the first source that cannot be fetched.
SkipSource_Abort ==
    /\ fetch_pc' = "returned"
    /\ channel_cache' = unique_channels(all_channels)
    /\ fetched' = unique_channels(all_channels)
    /\ UNCHANGED <<source_urls, fetch_pos, fetch_attempt, fetch_nreq, all_channels>>

\* Lines 212-213: `if not content: continue`.
SkipSource == NextSource(all_channels)

\* A retry test that reads the retry count of the prober's configuration.
FetchHasNextAttempt_ConfigRetries(a) == a < retry_times

\* Line 116: `if attempt < retry_times`, with the local retry_times of
\* line 98; also the bound of the loop of line 100.
FetchHasNextAttempt(a) == a < FETCH_RETRY_TIMES

\* fetch_source_content, lines 101-113: an attempt got a response and its
\* text is returned; lines 212-216: an empty text is skipped, any other
\* is extracted and appended to all_channels.
FetchOkWith(texts) ==
    /\ fetch_pc = "loop"
    /\ \E text \in texts :
         LET chs == IF text = <<>>
                    THEN <<>>
                    ELSE extract_channel_name_and_url(text, source_urls[fetch_pos])
         IN /\ fetch_log' = Append(fetch_log, Some(chs))
            /\ IF text = <<>> THEN SkipSource ELSE NextSource(all_channels \o chs)

FetchOk == FetchOkWith(SourceTexts)

\* fetch_source_content, lines 114-120: an attempt failed; it is retried
\* while attempt < retry_times, and after the last attempt None is
\* returned and the source skipped (lines 212-213).
FetchFail ==
    /\ fetch_pc = "loop"
    /\ IF FetchHasNextAttempt(fetch_attempt)
       THEN /\ fetch_attempt' = fetch_attempt + 1
            /\ fetch_nreq' = fetch_nreq + 1
            /\ UNCHANGED <<source_urls, fetch_pc, fetch_pos, fetch_log, all_channels,
                           channel_cache, fetched>>
       ELSE /\ fetch_log' = Append(fetch_log, None)
            /\ SkipSource

InitFetch ==
    /\ retry_times \in {0, RETRY_TIMES}
    /\ concurrent_limit = 1
    /\ net = BatchNet
    /\ channels = <<>>
    /\ ProbeInit
    /\ FilterIdle
    /\ ExtractIdle
    /\ OutputIdle
    /\ MainIdle
    /\ MirrorIdle
    /\ source_urls \in SourceLists
    /\ fetch_pc = "idle"
    /\ fetch_pos = 0
    /\ fetch_attempt = 0
    /\ fetch_nreq = 0
    /\ fetch_log = <<>>
    /\ all_channels = <<>>
    /\ channel_cache = <<>>
    /\ fetched = <<>>

NextFetch ==
    (FetchStart \/ FetchOk \/ FetchFail)
        /\ UNCHANGED <<probe_vars, filter_vars, extract_vars, out_vars, main_vars, mirror_vars>>

SpecFetch == InitFetch /\ [][NextFetch]_vars

\* ------------------------------------------------------------------------
\* generate_all_output
\* ------------------------------------------------------------------------
\* Code points order the characters of the channel names: digits, upper
\* case, "_", lower case.
CharOrder ==
    <<"0", "1", "2", "3", "4", "5", "6", "7", "8", "9",
      "A", "B", "C", "D", "E", "M", "U", "_",
      "a", "b", "c", "d", "e", "f", "g", "h", "i", "j", "k", "l", "m",
      "n", "o", "p", "q", "r", "s", "t", "u", "v", "w", "x", "y", "z">>

ord(c) == CHOOSE k \in DOMAIN CharOrder : CharOrder[k] = c

\* a <= b for two str values
RECURSIVE StrLeq(_, _)
StrLeq(a, b) ==
    IF a = <<>> THEN TRUE
    ELSE IF b = <<>> THEN FALSE
    ELSE IF a[1] = b[1] THEN StrLeq(Tail(a), Tail(b))
    ELSE ord(a[1]) < ord(b[1])

\* The value used when the latency is falsy (line 467).
LATENCY_SORT_DEFAULT == 9999

\* The report lists at most this many unplayable results (line 482).
UNPLAYABLE_SHOWN == 50

\* key=lambda r: r.latency or 9999.  None and 0 are both falsy.
latency_key(r) ==
    IF r.latency = None \/ r.latency[1] = 0 THEN LATENCY_SORT_DEFAULT
    ELSE r.latency[1]

\* sorted() is stable: r goes behind every element whose key is not
\* greater than its own.
InsertByLatency(acc, r) ==
    LET k == Cardinality({j \in DOMAIN acc : latency_key(acc[j]) <= latency_key(r)})
    IN SubSeq(acc, 1, k) \o <<r>> \o SubSeq(acc, k + 1, Len(acc))

\* sorted(playable_results, key=lambda r: r.latency or 9999)
RECURSIVE sorted_by_latency(_)
sorted_by_latency(list) ==
    IF list = <<>> THEN <<>>
    ELSE InsertByLatency(sorted_by_latency(SubSeq(list, 1, Len(list) - 1)),
                         list[Len(list)])

InsertByName(acc, r) ==
    LET k == Cardinality({j \in DOMAIN acc :
                             StrLeq(acc[j].channel_name, r.channel_name)})
    IN SubSeq(acc, 1, k) \o <<r>> \o SubSeq(acc, k + 1, Len(acc))

\* sorted(playable_results, key=lambda r: r.channel_name)
RECURSIVE sorted_by_name(_)
sorted_by_name(list) ==
    IF list = <<>> THEN <<>>
    ELSE InsertByName(sorted_by_name(SubSeq(list, 1, Len(list) - 1)),
                      list[Len(list)])

\* unplayable_results[:50]
FirstShown(list) ==
    SubSeq(list, 1, IF Len(list) < UNPLAYABLE_SHOWN THEN Len(list)
                    ELSE UNPLAYABLE_SHOWN)

\* generate_all_output: the name/URL file, then the report.  With an empty
\* result map the playable rate of the report header divides by zero; the
\* except clause of generate_play_report ends the report before its lists.
GenerateAllOutput ==
    /\ opc = "idle"
    /\ fpc = "filtered"
    /\ txt_sorted' = sorted_by_name(playable_results)
    /\ IF DOMAIN play_test_results = {}
       THEN /\ playable_sorted' = <<>>
            /\ unplayable_shown' = <<>>
       ELSE /\ playable_sorted' = sorted_by_latency(playable_results)
            /\ unplayable_shown' = FirstShown(unplayable_results)
    /\ opc' = "written"
    /\ UNCHANGED <<probe_vars, filter_vars>>

\* The result maps given to the filter and the report: names differ, and
\* the latencies lie on both sides of 0 and of the default sort key.
ReportLatencies ==
    {None, Some(0), Some(LATENCY_THRESHOLD), Some(LATENCY_SORT_DEFAULT + 1)}

ReportOutcomes ==
    [play_success : BOOLEAN, latency : ReportLatencies, name : {1, 2}]

ReportResultOf(i, o) ==
    [PlayTestResult(Url(i), Names[o.name]) EXCEPT
        !.play_success = o.play_success, !.latency = o.latency,
        !.error = IF o.play_success THEN None ELSE Some(ErrTimeout)]

ReportMaps ==
    UNION {{[u \in {Url(i) : i \in D} |->
                LET i == CHOOSE k \in D : Url(k) = u IN ReportResultOf(i, f[i])] :
              f \in [D -> ReportOutcomes]} : D \in SUBSET (1..MaxResults)}

InitReport ==
    /\ retry_times = RETRY_TIMES
    /\ concurrent_limit = 1
    /\ net = BatchNet
    /\ channels = <<>>
    /\ bpc = "returned"
    /\ sem = 0
    /\ pc = <<>>
    /\ attempt = <<>>
    /\ res = <<>>
    /\ nreq = <<>>
    /\ last = <<>>
    /\ last_rsp = <<>>
    /\ hist = <<>>
    /\ nwrites = <<>>
    /\ results = <<>>
    /\ processed_count = 0
    /\ total_count = 0
    /\ play_test_results \in ReportMaps
    /\ latency_threshold \in {0, LATENCY_THRESHOLD, LATENCY_SORT_DEFAULT + 1}
    /\ fpc = "idle"
    /\ playable_results = <<>>
    /\ unplayable_results = <<>>
    /\ ExtractIdle
    /\ OutputIdle
    /\ MainIdle
    /\ MirrorIdle
    /\ FetchIdle

NextReport ==
    \/ FilterPlayable /\ UNCHANGED <<extract_vars, fetch_vars, out_vars, main_vars, mirror_vars>>
    \/ GenerateAllOutput /\ UNCHANGED <<extract_vars, fetch_vars, main_vars, mirror_vars>>

SpecReport == InitReport /\ [][NextReport]_vars

\* ------------------------------------------------------------------------
\* main
\* ------------------------------------------------------------------------
CONCURRENT_LIMIT == 10  \* config.CONCURRENT_LIMIT

\* collect_all_urls, lines 232-240
collect_all_urls(cache) ==
    IF cache = <<>> THEN <<>> ELSE [i \in DOMAIN cache |-> cache[i].url]

\* A main that goes on to the probe whatever was collected.
NoChannels_Never(all_urls, cache) == FALSE

\* Line 509: `if not all_urls or not channel_cache`
NoChannels(all_urls, cache) == all_urls = <<>> \/ cache = <<>>

\* The texts the sources return in a run of main, and the answers of the
\* servers: every way an attempt can fail, and a media response.
MainTexts ==
    {<<>>,
     EXTINF \o <<"-", "1", ",", "A">> \o <<"\n">> \o HttpA \o <<"\n">>,
     <<"D", ",">> \o HttpB \o <<"\n">>}

MainSourceLists ==
    {<<>>, <<SourceName(1)>>, <<SourceName(1), SourceName(2)>>}

MainNet ==
    [responses |-> {[status |-> 200, ctype |-> "video/mp4"],
                    [status |-> 200, ctype |-> "text/html"],
                    [status |-> 500, ctype |-> "text/html"]},
     exceptions |-> Exceptions,
     read_exceptions |-> {},
     latencies |-> {LATENCY_THRESHOLD}]

\* Step 1, line 504: fetch_and_extract_all_channels().
MainFetchStart ==
    /\ main_pc = "fetch"
    /\ FetchStart
    /\ UNCHANGED <<probe_vars, filter_vars, extract_vars, out_vars, main_vars, mirror_vars>>

MainFetchOk ==
    /\ main_pc = "fetch"
    /\ FetchOkWith(MainTexts)
    /\ UNCHANGED <<probe_vars, filter_vars, extract_vars, out_vars, main_vars, mirror_vars>>

MainFetchFail ==
    /\ main_pc = "fetch"
    /\ FetchFail
    /\ UNCHANGED <<probe_vars, filter_vars, extract_vars, out_vars, main_vars, mirror_vars>>

\* Step 2, lines 508-515: collect the URLs; with none, log the error and
\* return; otherwise enter CorePlayTester() and call
\* batch_verify_play(channel_cache).
MainCollect ==
    /\ main_pc = "fetch"
    /\ fetch_pc = "returned"
    /\ IF NoChannels(collect_all_urls(channel_cache), channel_cache)
       THEN /\ main_pc' = "done"
            /\ main_end' = "no_channels"
            /\ UNCHANGED channels
       ELSE /\ main_pc' = "probe"
            /\ channels' = channel_cache
            /\ UNCHANGED main_end
    /\ UNCHANGED <<retry_times, concurrent_limit, net, bpc, sem, pc, attempt, res,
                   nreq, last, last_rsp, hist, nwrites, results, play_test_results,
                   processed_count, total_count>>
    /\ UNCHANGED <<filter_vars, extract_vars, fetch_vars, out_vars, mirror_vars>>

\* Step 3, line 516: await tester.batch_verify_play(channel_cache).
MainProbe ==
    /\ main_pc = "probe"
    /\ ProbeNext
    /\ UNCHANGED <<filter_vars, extract_vars, fetch_vars, out_vars, main_vars, mirror_vars>>

\* Step 4, line 520: filter_playable_channels(), once batch_verify_play
\* has returned.
MainFilter ==
    /\ main_pc = "probe"
    /\ bpc = "returned"
    /\ FilterPlayable
    /\ main_pc' = "output"
    /\ UNCHANGED <<main_end, extract_vars, fetch_vars, out_vars, mirror_vars>>

\* Step 5, lines 524-528: generate_all_output, then main returns.
MainOutput ==
    /\ main_pc = "output"
    /\ GenerateAllOutput
    /\ main_pc' = "done"
    /\ main_end' = "completed"
    /\ UNCHANGED <<extract_vars, fetch_vars, mirror_vars>>

\* asyncio.run(main()) in a fresh process: the module globals are empty.
InitMain ==
    /\ retry_times = RETRY_TIMES
    /\ concurrent_limit = CONCURRENT_LIMIT
    /\ net = MainNet
    /\ channels = <<>>
    /\ ProbeInit
    /\ FilterIdle
    /\ ExtractIdle
    /\ OutputIdle
    /\ main_pc = "fetch"
    /\ main_end = "running"
    /\ MirrorIdle
    /\ source_urls \in MainSourceLists
    /\ fetch_pc = "idle"
    /\ fetch_pos = 0
    /\ fetch_attempt = 0
    /\ fetch_nreq = 0
    /\ fetch_log = <<>>
    /\ all_channels = <<>>
    /\ channel_cache = <<>>
    /\ fetched = <<>>

NextMain ==
    \/ MainFetchStart
    \/ MainFetchOk
    \/ MainFetchFail
    \/ MainCollect
    \/ MainProbe
    \/ MainFilter
    \/ MainOutput

SpecMain == InitMain /\ [][NextMain]_vars

\* Every await of main ends: the requests are bounded by their timeouts.
SpecMainFair == SpecMain /\ WF_vars(NextMain)

\* ------------------------------------------------------------------------
\* get_url_content (main.py)
\* ------------------------------------------------------------------------
\* A URL is the sequence of its parts: scheme, host, path.
RAW_HOST == "raw.githubusercontent.com"

\* GITHUB_MIRRORS[0] and GITHUB_PROXY_PREFIXES[0]
MIRROR_HOST == "raw.gitmirror.com"

PROXY_PREFIX == "https://ghproxy.com/"

\* raw_url.startswith("https://raw.githubusercontent.com")
IsRawUrl(url) == Len(url) >= 2 /\ url[1] = "https://" /\ url[2] = RAW_HOST

\* get_mirror_url, lines 26-42: str.replace puts the mirror host in the
\* place of every occurrence of the raw host; any other URL is returned
\* as it is.
get_mirror_url(raw_url) ==
    IF IsRawUrl(raw_url)
    THEN [k \in DOMAIN raw_url |-> IF raw_url[k] = RAW_HOST THEN MIRROR_HOST ELSE raw_url[k]]
    ELSE raw_url

\* get_proxy_url, lines 44-61
get_proxy_url(raw_url) ==
    IF IsRawUrl(raw_url) THEN <<PROXY_PREFIX>> \o raw_url ELSE raw_url

\* What a request can meet: a response whose text is returned, or any
\* exception, raise_for_status included.
Replies == [ok : {TRUE}, text : SourceTexts] \cup {[ok |-> FALSE, text |-> <<>>]}

\* send_request, lines 64-81: the text of the response, None after any
\* exception.
send_request(reply) == IF reply.ok THEN Some(reply.text) ELSE None

\* A test by truth value: an empty text counts as a failure.
NeedsProxy_Falsy(content) == content = None \/ content[1] = <<>>

\* Line 94: `if content is None`
NeedsProxy(content) == content = None

\* Line 100: `return content if content is not None else ""`
ReturnValue(content) == IF content # None THEN Some(content[1]) ELSE Some(<<>>)

\* Lines 90-91: the mirror URL is built and requested.
GetUrlContent ==
    /\ gpc = "idle"
    /\ g_log' = <<[role |-> "mirror", url |-> get_mirror_url(g_url), ok |-> FALSE]>>
    /\ gpc' = "mirror"
    /\ UNCHANGED <<g_url, g_content, g_ret>>

\* Lines 91-100: the mirror request ended.  After a failure the proxy URL
\* is built and requested; otherwise the content is returned.
MirrorReply ==
    /\ gpc = "mirror"
    /\ \E reply \in Replies :
         LET content == send_request(reply)
             logged == [g_log EXCEPT ![1].ok = reply.ok]
         IN /\ g_content' = content
            /\ IF NeedsProxy(content)
               THEN /\ g_log' = Append(logged,
                                  [role |-> "proxy", url |-> get_proxy_url(g_url),
                                   ok |-> FALSE])
                    /\ gpc' = "proxy"
                    /\ UNCHANGED g_ret
               ELSE /\ g_log' = logged
                    /\ g_ret' = ReturnValue(content)
                    /\ gpc' = "returned"
    /\ UNCHANGED g_url

\* Lines 97-100: the proxy request ended; the content is returned.
ProxyReply ==
    /\ gpc = "proxy"
    /\ \E reply \in Replies :
         LET content == send_request(reply)
         IN /\ g_content' = content
            /\ g_log' = [g_log EXCEPT ![2].ok = reply.ok]
            /\ g_ret' = ReturnValue(content)
            /\ gpc' = "returned"
    /\ UNCHANGED g_url

\* The URLs given to get_url_content: GitHub RAW addresses, one with the
\* raw host again in its path, an address of another host, and the raw
\* host with another scheme.
MirrorUrls ==
    {<<"https://", RAW_HOST, "/o/r/f.txt">>,
     <<"https://", RAW_HOST, "/o/", RAW_HOST, "/f.txt">>,
     <<"https://", "example.com", "/f.txt">>,
     <<"http://", RAW_HOST, "/o/r/f.txt">>}

InitMirror ==
    /\ ProbeIdle
    /\ FilterIdle
    /\ ExtractIdle
    /\ OutputIdle
    /\ MainIdle
    /\ FetchIdle
    /\ gpc = "idle"
    /\ g_url \in MirrorUrls
    /\ g_content = None
    /\ g_log = <<>>
    /\ g_ret = None

NextMirror ==
    \/ GetUrlContent
         /\ UNCHANGED <<probe_vars, filter_vars, extract_vars, fetch_vars, out_vars, main_vars>>
    \/ MirrorReply
         /\ UNCHANGED <<probe_vars, filter_vars, extract_vars, fetch_vars, out_vars, main_vars>>
    \/ ProxyReply
         /\ UNCHANGED <<probe_vars, filter_vars, extract_vars, fetch_vars, out_vars, main_vars>>

SpecMirror == InitMirror /\ [][NextMirror]_vars

\* fetch_and_extract_all_channels called when the module global
\* channel_cache may hold the channels of an earlier call.
PriorCaches ==
    {<<>>,
     <<ChannelInfo(HttpA, Names[1], SourceName(1))>>,
     <<ChannelInfo(HttpB, Names[2], SourceName(1)),
       ChannelInfo(HttpA, Names[1], SourceName(2))>>}

InitRefetch ==
    /\ ProbeIdle
    /\ FilterIdle
    /\ ExtractIdle
    /\ OutputIdle
    /\ MainIdle
    /\ MirrorIdle
    /\ source_urls \in MainSourceLists
    /\ fetch_pc = "idle"
    /\ fetch_pos = 0
    /\ fetch_attempt = 0
    /\ fetch_nreq = 0
    /\ fetch_log = <<>>
    /\ all_channels = <<>>
    /\ channel_cache \in PriorCaches
    /\ fetched = <<>>

NextRefetch ==
    (FetchStart \/ FetchOkWith(MainTexts) \/ FetchFail)
        /\ UNCHANGED <<probe_vars, filter_vars, extract_vars, out_vars, main_vars, mirror_vars>>

SpecRefetch == InitRefetch /\ [][NextRefetch]_vars

\* ------------------------------------------------------------------------
\* Properties of the prober
\* ------------------------------------------------------------------------
\* The workers inside verify_single_play: past the semaphore, result not
\* yet written.
InFlight == {i \in DOMAIN pc : pc[i] \in {"get", "read", "sleep"}}

UrlsOf(chs) == {chs[i].url : i \in DOMAIN chs}

DistinctUrls(chs) == \A i, j \in DOMAIN chs : chs[i].url = chs[j].url => i = j

\* C1: at every moment of a batch the number of channels whose probe has
\* started and not finished is at most the concurrency limit.
C1_InFlightAtMostLimit == Cardinality(InFlight) <= concurrent_limit

\* C1 witness: the gate is full while another channel still waits.
C1_Witness ==
    /\ Cardinality(InFlight) = concurrent_limit
    /\ \E i \in DOMAIN pc : pc[i] = "start"

\* C2: after batch_verify_play returned for channels with pairwise distinct
\* URLs, the keys of the result map are exactly the channel URLs and every
\* entry carries its own key as url.
C2_OneResultPerUrl ==
    (bpc = "returned" /\ DistinctUrls(channels)) =>
        /\ DOMAIN results = UrlsOf(channels)
        /\ \A u \in DOMAIN results : results[u].url = u

\* C2 witness: a batch of MaxChannels distinct channels has returned.
C2_Witness ==
    /\ bpc = "returned"
    /\ DistinctUrls(channels)
    /\ Len(channels) = MaxChannels
    /\ Cardinality(DOMAIN results) = MaxChannels

\* C3: a result returned by verify_single_play with play_success set has
\* no error, also after earlier attempts failed.
C3_SuccessHasNoError ==
    \A i \in DOMAIN pc :
        (pc[i] = "done" /\ res[i].play_success) => res[i].error = None

\* C3 witness: a probe succeeded on a later attempt, after a failed one.
C3_Witness ==
    \E i \in DOMAIN pc : pc[i] = "done" /\ res[i].play_success /\ nreq[i] >= 2

\* C9 as claimed: no channel gets more than retry_times probe attempts.
C9_AtMostRetryTimesAttempts == \A i \in DOMAIN nreq : nreq[i] <= retry_times

\* C9 amended: a channel gets at most retry_times + 1 attempts, and none
\* after an attempt has succeeded.
C9_AtMostRetriesPlusOne ==
    /\ [](\A i \in DOMAIN nreq : nreq[i] <= retry_times + 1)
    /\ [][\A i \in DOMAIN pc :
             res[i].play_success => (i \in DOMAIN nreq' /\ nreq'[i] = nreq[i])]_vars

\* C9 witness: a channel used up all its attempts, with at least one retry.
C9_Witness ==
    \E i \in DOMAIN pc :
        pc[i] = "done" /\ retry_times >= 1 /\ nreq[i] = retry_times + 1

\* C10 as claimed: an attempt whose timeout expired, in session.get or in
\* the body sample read, ended as a failure with the timeout reason.
C10_TimeoutAlwaysFails ==
    \A i \in DOMAIN pc :
        (pc[i] \in {"sleep", "done"} /\ last[i].exc = "TimeoutError") =>
            /\ ~res[i].play_success
            /\ res[i].error = Some(ErrTimeout)
            /\ ErrTimeout # ErrConnection

\* C10 amended: a timeout while connecting or reading the headers fails
\* the attempt with the timeout reason, which differs from the
\* connection-error reason; a timeout in the body sample read is swallowed
\* and the attempt is a success.
C10_TimeoutInGetFails ==
    \A i \in DOMAIN pc :
        /\ (pc[i] \in {"sleep", "done"} /\ last[i] = Event("get", "TimeoutError")) =>
              /\ ~res[i].play_success
              /\ res[i].error = Some(ErrTimeout)
              /\ res[i].error # Some(ErrConnection)
        /\ (pc[i] = "done" /\ last[i] = Event("read", "TimeoutError")) =>
              /\ res[i].play_success
              /\ res[i].error = None

\* C10 witness: the timeout expired in session.get on the last attempt.
C10_Witness ==
    \E i \in DOMAIN pc :
        pc[i] = "done" /\ last[i] = Event("get", "TimeoutError") /\ nreq[i] >= 2

\* The accepted status codes and the media signals, as the specification
\* of the prober lists them.
AcceptedStatus == {200, 206, 302, 307}

MediaSignal(ctype, url) ==
    \/ ctype \in {"video/mp4", "audio/mpeg", "application/x-mpegurl",
                  "application/octet-stream"}
    \/ Contains(lower(url), M3U8)

\* Every attempt of worker i got a response with a status outside the
\* accepted set.
OnlyBadStatus(i) ==
    /\ hist[i] # <<>>
    /\ \A k \in DOMAIN hist[i] :
          hist[i][k].exc = "none" /\ hist[i][k].status \notin AcceptedStatus

\* C17: a channel whose every attempt got a response with a status outside
\* {200, 206, 302, 307} ends with play_success false, a bad-status failure
\* reason and no latency.
C17_BadStatusFailsWithoutLatency ==
    \A i \in DOMAIN pc :
        (pc[i] = "done" /\ OnlyBadStatus(i)) =>
            LET r == results[channels[i].url]
            IN /\ ~r.play_success
               /\ r.error # None
               /\ r.error[1].kind = "bad_status"
               /\ r.latency = None

\* C17 witness: a first attempt and a retry both got status 500.
C17_Witness ==
    \E i \in DOMAIN pc :
        /\ pc[i] = "done"
        /\ OnlyBadStatus(i)
        /\ Len(hist[i]) >= 2
        /\ \A k \in DOMAIN hist[i] : hist[i][k].status = 500

\* The latest session.get of worker i returned an accepted status with at
\* least one media signal.
GotMedia(i) ==
    /\ last_rsp[i] # None
    /\ last_rsp[i][1].status \in AcceptedStatus
    /\ MediaSignal(last_rsp[i][1].ctype, channels[i].url)

\* C18: an attempt that gets an accepted status and a media signal ends the
\* probe with play_success true and a latency >= 0; nothing but the read of
\* the body sample stands between the response and that result, and the
\* outcome of the read does not matter.
C18_MediaResponseSucceeds ==
    \A i \in DOMAIN pc :
        GotMedia(i) =>
            /\ pc[i] \in {"read", "done"}
            /\ pc[i] = "done" =>
                  LET r == results[channels[i].url]
                  IN /\ r.play_success
                     /\ r.latency # None
                     /\ r.latency[1] >= 0

\* C18 witness: a probe succeeded although the read of the body sample
\* raised, and the only media signal was the ".m3u8" of the URL.
C18_Witness ==
    \E i \in DOMAIN pc :
        /\ pc[i] = "done"
        /\ GotMedia(i)
        /\ last[i].phase = "read"
        /\ last[i].exc # "none"
        /\ last_rsp[i][1].ctype = "text/html"
        /\ results[channels[i].url].play_success

\* The workers that wrote the result map in a step.
Writers == {i \in DOMAIN nwrites : nwrites'[i] # nwrites[i]}

\* A step of the worker tasks of a batch.
WorkerStep == bpc = "gather" /\ bpc' = "gather"

\* In a step, the result map changes only by one worker writing the slot
\* of its own URL, once, on leaving its retry loop.
SlotWrittenOnceByOwner ==
    /\ \A i \in Writers :
          /\ pc[i] \in {"get", "read"}
          /\ pc'[i] = "done"
          /\ res'[i].play_success \/ attempt[i] = retry_times
          /\ nwrites[i] = 0
          /\ nwrites'[i] = 1
          /\ results' = (channels[i].url :> res'[i]) @@ results
    /\ Writers = {} => results' = results
    /\ \A i \in DOMAIN pc : (pc[i] # "done" /\ pc'[i] = "done") => i \in Writers

\* C19 as claimed: each slot of the result map is written exactly once, by
\* the task of that URL when its retry loop has finished, and the tasks
\* write no other shared state.
C19_TasksWriteOnlyTheirSlot ==
    [][WorkerStep =>
          /\ SlotWrittenOnceByOwner
          /\ UNCHANGED <<processed_count, total_count, play_test_results>>]_vars

\* C19 amended: each task writes the slot of its URL exactly once, when its
\* retry loop has finished; the only other shared state the tasks write is
\* the progress counter, which the writing task increments by one.
C19_TasksWriteTheirSlotAndTheCounter ==
    [][WorkerStep =>
          /\ SlotWrittenOnceByOwner
          /\ processed_count' = processed_count + Cardinality(Writers)
          /\ Cardinality(Writers) <= 1
          /\ UNCHANGED <<total_count, play_test_results>>]_vars

\* C19 witness: a batch of MaxChannels channels with distinct URLs has
\* returned after a retry, every slot written once.
C19_Witness ==
    /\ bpc = "returned"
    /\ Len(channels) = MaxChannels
    /\ DistinctUrls(channels)
    /\ \A i \in DOMAIN nwrites : nwrites[i] = 1
    /\ \E i \in DOMAIN hist : Len(hist[i]) = 2
    /\ processed_count = MaxChannels

Done == {i \in DOMAIN pc : pc[i] = "done"}

\* C22: the progress counter is 0 when the batch starts, counts each
\* channel once, when its probe has finished, never exceeds total_count,
\* and equals total_count when batch_verify_play has returned.
C22_ProgressCounterConsistent ==
    /\ bpc = "idle" => processed_count = 0
    /\ bpc = "gather" =>
          /\ total_count = Len(channels)
          /\ processed_count = Cardinality(Done)
          /\ processed_count <= total_count
    /\ bpc = "returned" =>
          /\ total_count = Len(channels)
          /\ processed_count = total_count

\* C22 witness: the counter stands between 0 and total_count while a probe
\* that already failed once is still under way.
C22_Witness ==
    /\ bpc = "gather"
    /\ processed_count > 0
    /\ processed_count < total_count
    /\ \E i \in DOMAIN pc : pc[i] = "sleep"

C26_SlotHeldUntilResultWritten ==
    /\ [](bpc = "gather" => sem = concurrent_limit - Cardinality(InFlight))
    /\ [][\A i \in DOMAIN pc :
             (pc[i] = "start" /\ pc'[i] = "get")
                 => Cardinality(InFlight) < concurrent_limit]_vars
    /\ [][(bpc = "gather" /\ sem' > sem) =>
             \E i \in InFlight :
                 /\ pc'[i] = "done"
                 /\ sem' = sem + 1
                 /\ channels[i].url \in DOMAIN results'
                 /\ results'[channels[i].url] = res'[i]]_vars

\* C26 witness: every slot is taken, one holder sleeps between two
\* attempts, and another channel waits at the gate.
C26_Witness ==
    /\ bpc = "gather"
    /\ sem = 0
    /\ \E i \in DOMAIN pc : pc[i] = "sleep"
    /\ \E i \in DOMAIN pc : pc[i] = "start"

\* C27: under a fair event loop, with every attempt ending, every channel
\* gets past the gate and obtains a result and batch_verify_play returns;
\* failed probes leak no slot, so all slots are free at the return.
C27_BatchTerminates ==
    /\ <>(/\ bpc = "returned"
          /\ \A i \in DOMAIN channels :
                i \in Done /\ channels[i].url \in DOMAIN play_test_results)
    /\ ((\E i \in DOMAIN pc : pc[i] = "start") ~> (\A i \in DOMAIN pc : pc[i] = "done"))
    /\ []((bpc = "returned" /\ channels # <<>>) => sem = concurrent_limit)

\* C27 witness: more channels than slots, every probe failed, and the
\* batch has returned.
C27_Witness ==
    /\ bpc = "returned"
    /\ Len(channels) > concurrent_limit
    /\ DistinctUrls(channels)
    /\ \A i \in DOMAIN channels : ~play_test_results[channels[i].url].play_success

\* The failure reason of the latest attempt of worker i, from what the
\* attempt met.
ReasonOfLastAttempt(i) ==
    CASE last[i].exc = "TimeoutError" -> ErrTimeout
      [] last[i].exc = "ClientConnectionError" -> ErrConnection
      [] last[i].exc = "Exception" -> ErrOther
      [] OTHER ->
           IF last_rsp[i][1].status \in AcceptedStatus
           THEN ErrNonMedia
           ELSE ErrBadStatus(last_rsp[i][1].status)

\* C29: when every attempt of a channel failed, the result has
\* play_success false and a failure reason, the one of the last attempt.
C29_FailureReasonIsTheLast ==
    \A i \in DOMAIN pc :
        (pc[i] = "done" /\ last[i].phase # "read") =>
            LET r == results[channels[i].url]
            IN /\ ~r.play_success
               /\ r.error = Some(ReasonOfLastAttempt(i))

\* C29 witness: two attempts failed in different ways.
C29_Witness ==
    \E i \in DOMAIN pc :
        /\ pc[i] = "done"
        /\ ~results[channels[i].url].play_success
        /\ Len(hist[i]) = 2
        /\ hist[i][1] = Outcome(0, "TimeoutError")
        /\ hist[i][2] = Outcome(404, "none")

\* ------------------------------------------------------------------------
\* Properties of the filter
\* ------------------------------------------------------------------------
Range(seq) == {seq[k] : k \in DOMAIN seq}

Count(seq, x) == Cardinality({k \in DOMAIN seq : seq[k] = x})

\* C4: the two lists returned by filter_playable_channels split the result
\* map: their lengths add up to its size and every result is in exactly
\* one of them, once.
C4_PartitionIsTotalAndDisjoint ==
    fpc = "filtered" =>
        /\ Len(playable_results) + Len(unplayable_results)
              = Cardinality(DOMAIN play_test_results)
        /\ \A u \in DOMAIN play_test_results :
              Count(playable_results, play_test_results[u])
                + Count(unplayable_results, play_test_results[u]) = 1
        /\ Range(playable_results) \cap Range(unplayable_results) = {}

\* C4 witness: a map of MaxResults results was filtered and both lists are
\* non-empty.
C4_Witness ==
    /\ fpc = "filtered"
    /\ Cardinality(DOMAIN play_test_results) = MaxResults
    /\ playable_results # <<>>
    /\ unplayable_results # <<>>

\* C5: a result is in the playable list exactly when play_success holds
\* and its latency is absent or at most the threshold; a success with
\* latency 5000 under threshold 3000 is unplayable and a success with
\* latency equal to the threshold is playable.
C5_PlayableIffSuccessWithinThreshold ==
    fpc = "filtered" =>
        \A u \in DOMAIN play_test_results :
            LET r == play_test_results[u] IN
            /\ r \in Range(playable_results) <=>
                  (r.play_success /\
                     (r.latency = <<>> \/ r.latency[1] <= latency_threshold))
            /\ (r.play_success /\ r.latency = <<5000>> /\ latency_threshold = 3000)
                  => r \in Range(unplayable_results)
            /\ (r.play_success /\ r.latency = <<latency_threshold>>)
                  => r \in Range(playable_results)

\* C5 witness: under threshold 3000 a success with latency 5000 was put in
\* the unplayable list and a success with latency 3000 in the playable one.
C5_Witness ==
    /\ fpc = "filtered"
    /\ latency_threshold = 3000
    /\ \E r \in Range(unplayable_results) : r.play_success /\ r.latency = <<5000>>
    /\ \E r \in Range(playable_results) : r.play_success /\ r.latency = <<3000>>

\* ------------------------------------------------------------------------
\* Properties of the extractor
\* ------------------------------------------------------------------------
\* What each tier recognises in the text given to the extractor, before
\* any deduplication.
T1 == Tier1Matches(content_lines(input_text, 1), 1, None)

T2 == Tier2Matches(input_text, 1)

T3 == Tier3Matches(input_text, 1)

\* The positions in the text at which the matches ms have URL u.
PosOf(ms, u) == {ms[k].pos : k \in {j \in DOMAIN ms : ms[j].url = u}}

\* The positions at which URL u occurs in one of the three formats, given
\* the matches t1, t2, t3 of the three tiers.
OccPos(t1, t2, t3, u) == PosOf(t1, u) \cup PosOf(t2, u) \cup PosOf(t3, u)

MatchUrls(ms) == {ms[k].url : k \in DOMAIN ms}

TextUrls(t1, t2, t3) == MatchUrls(t1) \cup MatchUrls(t2) \cup MatchUrls(t3)

\* The URLs that occur more than once in the text.
RepeatedUrls(t1, t2, t3) ==
    {u \in TextUrls(t1, t2, t3) : Cardinality(OccPos(t1, t2, t3, u)) > 1}

\* The name of the first of the matches ms that has URL u.
FirstName(ms, u) == ms[Min({k \in DOMAIN ms : ms[k].url = u})].name

\* The name the match at position p gives to URL u.
NameAt(ms, u, p) == ms[Min({k \in DOMAIN ms : ms[k].url = u /\ ms[k].pos = p})].name

IsPlaceholder(n) ==
    Len(n) = 8 /\ SubSeq(n, 1, 7) = <<"c", "u", "s", "t", "o", "m", "_">>

\* The recorded name n is the one the text attaches: `attached` itself, or
\* the placeholder when a delimited pair has an empty name.
NameIs(n, attached) == IF attached = <<>> THEN IsPlaceholder(n) ELSE n = attached

\* The name attached to URL u at its first occurrence in the text.
NameAtFirstOccurrence(t1, t2, t3, u) ==
    LET p == Min(OccPos(t1, t2, t3, u))
    IN IF p \in PosOf(t1, u) THEN NameAt(t1, u, p)
       ELSE IF p \in PosOf(t2, u) THEN NameAt(t2, u, p)
       ELSE fallback_name(u)

\* The name attached to URL u at its first occurrence in the first tier
\* that recognises u at all.
NameInFirstTier(t1, t2, u) ==
    IF PosOf(t1, u) # {} THEN FirstName(t1, u)
    ELSE IF PosOf(t2, u) # {} THEN FirstName(t2, u)
    ELSE fallback_name(u)

RecordsOf(chs, u) == {k \in DOMAIN chs : chs[k].url = u}

\* C6 as claimed: a URL that occurs more than once in the text is returned
\* in exactly one record, named as at its first occurrence in the text.
C6_NameOfFirstOccurrence ==
    epc = "extracted" =>
        LET t1 == T1
            t2 == T2
            t3 == T3
        IN \A u \in RepeatedUrls(t1, t2, t3) :
              /\ Cardinality(RecordsOf(extracted, u)) = 1
              /\ \A k \in RecordsOf(extracted, u) :
                    NameIs(extracted[k].channel_name,
                           NameAtFirstOccurrence(t1, t2, t3, u))

\* C6 amended: a URL that occurs more than once in the text is returned in
\* exactly one record, named as at its first occurrence within the first
\* tier (tagged playlist, then delimited pair, then bare URL) that
\* recognises it.
C6_NameOfFirstTier ==
    epc = "extracted" =>
        LET t1 == T1
            t2 == T2
            t3 == T3
        IN \A u \in RepeatedUrls(t1, t2, t3) :
              /\ Cardinality(RecordsOf(extracted, u)) = 1
              /\ \A k \in RecordsOf(extracted, u) :
                    NameIs(extracted[k].channel_name, NameInFirstTier(t1, t2, u))

\* C6 witness: a URL occurs first in a delimited pair and later in a
\* tagged-playlist entry with another name.
C6_Witness ==
    /\ epc = "extracted"
    /\ LET t1 == T1
           t2 == T2
       IN \E u \in MatchUrls(t1) \cap MatchUrls(t2) :
             /\ Min(PosOf(t2, u)) < Min(PosOf(t1, u))
             /\ FirstName(t1, u) # FirstName(t2, u)

\* C8: every record returned by extract_channel_name_and_url has a
\* non-empty channel_name.
C8_NameNeverEmpty ==
    epc = "extracted" => \A k \in DOMAIN extracted : extracted[k].channel_name # <<>>

\* C8 witness: one record got the placeholder of the delimited-pair tier
\* and another the default name of the bare-URL tier.
C8_Witness ==
    /\ epc = "extracted"
    /\ \E k \in DOMAIN extracted : IsPlaceholder(extracted[k].channel_name)
    /\ \E k \in DOMAIN extracted : extracted[k].channel_name = UnknownName
    /\ \E m \in Range(T2) : m.name = <<>>

\* The positions of the URL occurrences captured by the matches ms.
Captured(ms) == {ms[k].pos : k \in DOMAIN ms}

\* The non-empty lines of the text given to the extractor.
Lines == content_lines(input_text, 1)

IsUrlLine(l) == ~StartsWith(l.text, EXTINF) /\ SchemeLen(l.text, 1) > 0

\* A metadata line that announces a name.
IsNamedExtinf(l) == StartsWith(l.text, EXTINF) /\ ExtinfName(l.text) # None

\* The metadata lines before line k of ls whose name no URL line has taken
\* yet.
Announcers(ls, k) ==
    {j \in 1..(k - 1) :
        /\ IsNamedExtinf(ls[j])
        /\ \A i \in (j + 1)..(k - 1) : ~IsUrlLine(ls[i])}

\* The match of the tagged-playlist tier at position p.
MatchAt(ms, p) == ms[CHOOSE k \in DOMAIN ms : ms[k].pos = p]

TaggedEntry(n, u) == EXTINF \o <<"-", "1", ",">> \o n \o <<"\n">> \o u \o <<"\n">>

\* A delimited-pair line
PairLine(n, sep, u) == n \o <<sep>> \o u \o <<"\n">>

\* The URL lines and the delimited pairs of ExtractLines.
ScenarioUrls == {HttpA, HttpB, HttpA \o <<"/", "m", "o", "v", "i", "e">>}

ScenarioPairs ==
    {[name |-> <<"C">>, sep |-> "|", url |-> HttpA],
     [name |-> <<"D">>, sep |-> ",", url |-> HttpB],
     [name |-> <<"E">>, sep |-> ",", url |-> HttpA \o <<",", "z">>]}

\* C21: a text made of one tagged-playlist entry (name A, URL u1) and one
\* delimited-pair line (name, URL u2) with u1 # u2 yields exactly the two
\* records (u1, A) and (u2, name), in this order.
C21_TaggedEntryThenPair ==
    epc = "extracted" =>
        \A u1 \in ScenarioUrls, p \in ScenarioPairs :
            (u1 # p.url
               /\ input_text = TaggedEntry(<<"A">>, u1) \o PairLine(p.name, p.sep, p.url))
            => extracted = <<ChannelInfo(u1, <<"A">>, SourceUrl),
                             ChannelInfo(p.url, p.name, SourceUrl)>>

\* C30: a URL occurrence yields at most one record: every record the
\* bare-URL tier adds comes from an occurrence that neither the
\* tagged-playlist tier nor the delimited-pair tier captured.
C30_FallbackSkipsCapturedOccurrences ==
    epc = "extracted" =>
        LET t1 == T1
            t2 == T2
            t3 == T3
        IN \A u \in MatchUrls(t3) \ (MatchUrls(t1) \cup MatchUrls(t2)) :
              RecordsOf(extracted, u) # {} =>
                  PosOf(t3, u) \ (Captured(t1) \cup Captured(t2)) # {}

\* ------------------------------------------------------------------------
\* Properties of the fetcher
\* ------------------------------------------------------------------------
SourceIndex(src) == Min({i \in DOMAIN source_urls : source_urls[i] = src})

FirstIndex(chs, u) == Min({j \in DOMAIN chs : chs[j].url = u})

\* C7: the list returned by fetch_and_extract_all_channels has no two
\* records with the same URL; the record kept for a URL is the first one
\* extracted, which comes from the earliest source that has the URL, and
\* the kept records are in first-seen order.
C7_GlobalDedupFirstSeenWins ==
    fetch_pc = "returned" =>
        /\ DistinctUrls(fetched)
        /\ UrlsOf(fetched) = UrlsOf(all_channels)
        /\ \A k \in DOMAIN fetched :
              /\ fetched[k] = all_channels[FirstIndex(all_channels, fetched[k].url)]
              /\ \A j \in DOMAIN all_channels :
                    all_channels[j].url = fetched[k].url =>
                        SourceIndex(fetched[k].source_url)
                            <= SourceIndex(all_channels[j].source_url)
        /\ \A k1, k2 \in DOMAIN fetched :
              k1 < k2 => FirstIndex(all_channels, fetched[k1].url)
                            < FirstIndex(all_channels, fetched[k2].url)

\* C7 witness: two sources gave the same URL under different names.
C7_Witness ==
    /\ fetch_pc = "returned"
    /\ \E i, j \in DOMAIN all_channels :
          /\ all_channels[i].url = all_channels[j].url
          /\ all_channels[i].source_url # all_channels[j].source_url
          /\ all_channels[i].channel_name # all_channels[j].channel_name
    /\ Len(fetched) >= 2

\* The channels extracted from the sources fetched so far, in source order.
RECURSIVE LoggedChannels(_)
LoggedChannels(log) ==
    IF log = <<>>
    THEN <<>>
    ELSE LoggedChannels(SubSeq(log, 1, Len(log) - 1))
         \o (IF log[Len(log)] = None THEN <<>> ELSE log[Len(log)][1])

\* C13: whatever sources fail, every source is fetched, and the list
\* returned holds exactly the channels extracted from the sources that
\* were fetched successfully, without duplicates.
C13_FailedSourcesAreSkipped ==
    /\ fetch_pc = "loop" => Len(fetch_log) = fetch_pos - 1
    /\ fetch_pc = "returned" =>
          /\ Len(fetch_log) = Len(source_urls)
          /\ all_channels = LoggedChannels(fetch_log)
          /\ \A i \in DOMAIN fetch_log :
                fetch_log[i] = None =>
                    \A k \in DOMAIN fetched : fetched[k].source_url # source_urls[i]
          /\ UrlsOf(fetched) = UrlsOf(LoggedChannels(fetch_log))
          /\ Range(fetched) \subseteq Range(LoggedChannels(fetch_log))
          /\ DistinctUrls(fetched)

\* C13 witness: the first source failed and the last of MaxSources sources
\* gave channels, which were returned.
C13_Witness ==
    /\ fetch_pc = "returned"
    /\ Len(source_urls) = MaxSources
    /\ fetch_log[1] = None
    /\ fetch_log[MaxSources] # None
    /\ fetched # <<>>
    /\ \A k \in DOMAIN fetched : fetched[k].source_url = source_urls[MaxSources]

\* The call of fetch_source_content for the current source ends in this
\* step.
FetchReturns == Len(fetch_log') = Len(fetch_log) + 1

\* C14: fetch_source_content makes at most 3 requests for a source,
\* whatever RETRY_TIMES is; it returns None only when the third request has
\* failed, and a request that succeeds ends the call.
C14_ThreeAttemptsPerSource ==
    /\ [](fetch_nreq <= 3)
    /\ [][FetchReturns =>
             /\ fetch_nreq \in 1..3
             /\ fetch_log'[Len(fetch_log')] = None => fetch_nreq = 3
             /\ fetch_attempt' = 0
             /\ fetch_nreq' \in {1, fetch_nreq}
             /\ fetch_pos' = fetch_pos + 1 \/ fetch_pc' = "returned"]_vars

\* C14 witness: with RETRY_TIMES = 0 one source was given up after its
\* third request and another returned its text.
C14_Witness ==
    /\ retry_times = 0
    /\ fetch_pc = "returned"
    /\ \E i \in DOMAIN fetch_log : fetch_log[i] = None
    /\ \E i \in DOMAIN fetch_log : fetch_log[i] # None /\ fetch_log[i][1] # <<>>

LatencyOf(r) == r.latency[1]

\* C16: in the playable list of the report the latencies that are present
\* never decrease, and a result without a latency comes after every result
\* that has one, a latency of 0 or one above the default sort key included.
C16_ReportSortedByLatency ==
    opc = "written" =>
        \A i, j \in DOMAIN playable_sorted :
            i < j =>
                /\ playable_sorted[i].latency = None
                       => playable_sorted[j].latency = None
                /\ (playable_sorted[i].latency # None
                        /\ playable_sorted[j].latency # None)
                       => LatencyOf(playable_sorted[i]) <= LatencyOf(playable_sorted[j])


\* ------------------------------------------------------------------------
\* Properties of main
\* ------------------------------------------------------------------------
\* batch_verify_play has returned a map with a result for every channel.
EveryChannelHasResult ==
    \A i \in DOMAIN channels : channels[i].url \in DOMAIN play_test_results

ReportEmitted == main_end = "completed" /\ fpc = "filtered" /\ opc = "written"

\* C11: a failed probe of one channel does not abort the batch: when
\* batch_verify_play returns there is a result for every channel, and once
\* the batch has been started the run goes on to the filter and the
\* report, also when every channel fails.
C11_ProbeFailuresDoNotAbort ==
    /\ [](main_pc \in {"probe", "output", "done"} /\ bpc = "returned"
              => EveryChannelHasResult)
    /\ [](main_pc = "done" /\ main_end # "no_channels" => ReportEmitted)
    /\ (main_pc = "probe" ~> ReportEmitted)

C11_Witness ==
    /\ ReportEmitted
    /\ Len(channels) = 2
    /\ \A i \in DOMAIN channels : ~play_test_results[channels[i].url].play_success
    /\ play_test_results[channels[1].url].error = Some(ErrOther)
    /\ play_test_results[channels[2].url].error = Some(ErrBadStatus(500))
    /\ playable_results = <<>>
    /\ Len(unplayable_shown) = 2

\* fetch_and_extract_all_channels has returned and no source gave a text:
\* every source failed in all its attempts, or none is configured.
EverySourceFailed ==
    /\ main_pc # "off"
    /\ fetch_pc = "returned"
    /\ \A k \in DOMAIN fetch_log : fetch_log[k] = None

\* C12: when every configured source fails, or none is configured, the
\* run ends early with no channel and the no-channels message: no probe is
\* started, nothing is filtered and no report is written.
C12_NoSourceEndsEarly ==
    /\ [](EverySourceFailed =>
              /\ channel_cache = <<>>
              /\ channels = <<>>
              /\ bpc = "idle"
              /\ fpc = "idle"
              /\ opc = "idle"
              /\ main_pc \in {"fetch", "done"}
              /\ main_pc = "done" => main_end = "no_channels")
    /\ (EverySourceFailed ~> (main_pc = "done" /\ main_end = "no_channels"))

C12_Witness ==
    /\ main_end = "no_channels"
    /\ fetch_log = <<None, None>>
    /\ bpc = "idle"

\* C15: the filter starts only after the batch has joined: when
\* filter_playable_channels reads the result map, every task is done and
\* the map holds, for every channel, the result its task ended with.
C15_FilterAfterJoin ==
    [][(fpc = "idle" /\ fpc' = "filtered") =>
          /\ bpc = "returned"
          /\ \A i \in DOMAIN channels :
                /\ pc[i] = "done"
                /\ nwrites[i] = 1
                /\ channels[i].url \in DOMAIN play_test_results
                /\ play_test_results[channels[i].url] = res[i]]_vars

C15_Witness ==
    /\ fpc = "filtered"
    /\ Len(channels) = 2
    /\ Len(hist[1]) = 2
    /\ Len(hist[2]) = 1
    /\ play_test_results[channels[2].url].play_success


\* C28: when fetch_and_extract_all_channels has returned, whatever the
\* cache held before and whatever the configuration, channel_cache is the
\* list the call returned, and collect_all_urls yields the URLs of that
\* list.
C28_CacheIsTheReturnedList ==
    fetch_pc = "returned" =>
        /\ channel_cache = fetched
        /\ collect_all_urls(channel_cache) = [k \in DOMAIN fetched |-> fetched[k].url]


\* ------------------------------------------------------------------------
\* Properties of get_url_content
\* ------------------------------------------------------------------------
\* C24: get_url_content requests the mirror URL first and the proxy URL
\* only after the mirror request failed; it returns the mirror content
\* when that request succeeded, otherwise the proxy content when that
\* request succeeded, otherwise the empty string, and never None.
C24_MirrorThenProxy ==
    /\ gpc # "off" /\ g_log # <<>> =>
          /\ g_log[1].role = "mirror"
          /\ g_log[1].url = get_mirror_url(g_url)
          /\ Len(g_log) <= 2
          /\ Len(g_log) = 2 =>
                /\ ~g_log[1].ok
                /\ g_log[2].role = "proxy"
                /\ g_log[2].url = get_proxy_url(g_url)
    /\ gpc = "returned" =>
          /\ g_ret # None
          /\ g_log[1].ok => (Len(g_log) = 1 /\ g_ret = g_content)
          /\ ~g_log[1].ok =>
                /\ Len(g_log) = 2
                /\ g_log[2].ok => g_ret = g_content
                /\ ~g_log[2].ok => g_ret = Some(<<>>)

\* C24 witness: the mirror request succeeded with an empty text, which is
\* returned without a request to the proxy.
C24_Witness ==
    /\ gpc = "returned"
    /\ IsRawUrl(g_url)
    /\ Len(g_log) = 1
    /\ g_log[1].ok
    /\ g_ret = Some(<<>>)

====
